---- MODULE Spec2Model ----
(***************************************************************************)
(* Cart / order consistency logic of the e-commerce backend.               *)
(*                                                                         *)
(* The relational store is modelled by its tables: Product.stock, Address, *)
(* Cart, CartItem, Order, OrderItem, Payment.  Every HTTP handler is one   *)
(* action that runs from the validators of its route to the response it    *)
(* sends: `req' holds the last request and `res' its response.  Requests   *)
(* run one at a time.  Amounts are integers.                               *)
(***************************************************************************)
EXTENDS Integers, Sequences, FiniteSets, TLC

\* ------------------------------------------------------------------ bounds
MaxQty      == 2    \* largest quantity of an add-order-item request and of an OrderItem
MaxItemId   == 2    \* CartItem rows that may ever be inserted
MaxOrders   == 3    \* Order rows of the order listing

\* --------------------------------------------------------- program constants
AddQuantityMax == 200    \* isInt({ max: 200 }) of addCartItemValidator

\* ------------------------------------------------------------ value domains
Users      == {"u1", "u2"}
NoUser     == "u0"                         \* req.user is undefined: no middleware set it
UserInputs == Users \cup {NoUser}
Products   == {"p1", "p2", "p3"}           \* the Product rows
NoProduct  == "p0"                         \* an id no Product row has
ProductIds == Products \cup {NoProduct}
RestockIds == {"p1", NoProduct}            \* product ids the stock updates carry
NoAddress  == "a0"                         \* an id no Address row has
AddressIds == {"a1", NoAddress}
AddressPool == {"a1", "a2"}                \* ids the Address rows can get
AddressInputs == AddressPool \cup {NoAddress}
Statuses   == {"PENDING", "PROCESSING", "SHIPPED", "DELIVERED", "CANCELLED"}
StatusInputs == Statuses \cup {"RETURNED"} \* the last one fails isIn([...])
OrderIdInputs == {1}
PriceInputs == {1, 2}
TotalInputs == {0, 1}
OrderQtyInputs == 0..MaxQty
BigQty     == AddQuantityMax + 1           \* a quantity above the add-item maximum
Stocks     == {0, 1, BigQty}
CartQtyInputs == {0, 1, BigQty}
ItemIdInputs == 1..MaxItemId
CallIds    == {1, 2}                       \* requests that can be in flight together
Idle       == [pc |-> "idle"]              \* no request in flight in this slot
PageInputs == {0, 1, 2, 3}                 \* ?page= of the order listing
LimitInputs == {0, 1, 2}                   \* ?limit= of the order listing
CartIdInputs == 1..Cardinality(Users)        \* ids the Cart rows can get
ModelQtyInputs == {-1, 0, 1}                \* quantities of direct addItemToCart calls
NoItem     == [id |-> 0]                   \* "no row" of a CartItem lookup

VARIABLES
    stock,       \* Product.stock of each Product row
    addresses,   \* Address.userId of each Address row
    carts,       \* Cart rows: carts[id] is the userId (id is AUTO_INCREMENT)
    cartItems,   \* CartItem rows: records id, cartId, productId, quantity
    nextItemId,  \* AUTO_INCREMENT counter of CartItem
    orders,      \* Order rows: orders[id] is the row
    orderItems,  \* OrderItem rows: orderItems[id] is the row
    payments,    \* Payment rows: the orderIds that have one
    added,       \* history: per <<orderId, productId>>, what the successful adds supplied
    req,         \* the last request
    res,         \* the response to it
    calls,       \* requests in flight: where each one is and what it has read
    checkedOut   \* pool connections that are checked out

vars == <<stock, addresses, carts, cartItems, nextItemId,
          orders, orderItems, payments, added, req, res, calls, checkedOut>>

cartVars  == <<carts, cartItems, nextItemId>>
orderVars == <<orders, orderItems, payments, added>>
callVars  == <<calls, checkedOut>>

Response(op, code, msg) == [op |-> op, code |-> code, msg |-> msg]

\* ------------------------------------------------------------ order helpers
\* mutant of ReduceTotal: the quantity is left out of the sum
RECURSIVE ReduceTotalOfPrices(_, _)
ReduceTotalOfPrices(items, sum) ==
    IF items = <<>> THEN sum
    ELSE ReduceTotalOfPrices(Tail(items), sum + Head(items).price)

\* items.reduce((sum, item) => sum + item.price * item.quantity, 0)
RECURSIVE ReduceTotal(_, _)
ReduceTotal(items, sum) ==
    IF items = <<>> THEN sum
    ELSE ReduceTotal(Tail(items), sum + Head(items).price * Head(items).quantity)

\* prisma.orderItem.findMany({ where: { orderId: id } }) on the table `items'
FindItemsOfOrder(items, id) == SelectSeq(items, LAMBDA it : it.orderId = id)

\* mutant of FindOrder: the lookup is not filtered by userId
FindOrderOfAnyUser(id, userId) == IF id \in DOMAIN orders THEN id ELSE 0

\* prisma.order.findUnique({ where: { id, userId } }): the id, 0 if no row
\* (an undefined userId puts no condition on the row)
FindOrder(id, userId) ==
    IF id \in DOMAIN orders /\ (userId = NoUser \/ orders[id].userId = userId)
    THEN id ELSE 0

\* mutant of FindAddress: the lookup is not filtered by userId
FindAddressOfAnyUser(id, userId) == id \in DOMAIN addresses

\* prisma.address.findFirst({ where: { id, userId } })
FindAddress(id, userId) ==
    id \in DOMAIN addresses /\ (userId = NoUser \/ addresses[id] = userId)

\* mutant of validTransitions: a shipped order may still be cancelled
validTransitionsShippedCancel ==
    [PENDING    |-> {"PROCESSING", "CANCELLED"},
     PROCESSING |-> {"SHIPPED", "CANCELLED"},
     SHIPPED    |-> {"DELIVERED", "CANCELLED"},
     DELIVERED  |-> {},
     CANCELLED  |-> {}]

\* mutant of validTransitions: a cancelled order may be reopened
validTransitionsReopen ==
    [PENDING    |-> {"PROCESSING", "CANCELLED"},
     PROCESSING |-> {"SHIPPED", "CANCELLED"},
     SHIPPED    |-> {"DELIVERED"},
     DELIVERED  |-> {},
     CANCELLED  |-> {"PENDING"}]

\* the table of legal status changes
validTransitions ==
    [PENDING    |-> {"PROCESSING", "CANCELLED"},
     PROCESSING |-> {"SHIPPED", "CANCELLED"},
     SHIPPED    |-> {"DELIVERED"},
     DELIVERED  |-> {},
     CANCELLED  |-> {}]

\* order.items.find((item) => item.productId === productId): first match, 0 if none
ExistingItem(id, productId) ==
    LET m == {i \in DOMAIN orderItems :
                 orderItems[i].orderId = id /\ orderItems[i].productId = productId}
    IN  IF m = {} THEN 0 ELSE CHOOSE i \in m : \A j \in m : i <= j

\* mutant of MergedQuantity: the new quantity overwrites, as in the cart
MergedQuantityOverwrite(existing, quantity) == quantity

\* quantity: existingItem.quantity + quantity
MergedQuantity(existing, quantity) == existing + quantity

\* mutant of NotPending: an order being processed is still editable
NotPendingNorProcessing(status) == status \notin {"PENDING", "PROCESSING"}

\* if (order.status !== "PENDING") of the add-item and the cancel routes
NotPending(status) == status # "PENDING"

\* mutant of HasPayment: the payment lookup is left out
HasPaymentUnchecked(id) == FALSE

\* prisma.payment.findUnique({ where: { orderId: id } })
HasPayment(id) == id \in payments

\* mutant of CancelUpdate: the row is deleted instead of marked
CancelDelete(table, id) == SubSeq(table, 1, id - 1) \o SubSeq(table, id + 1, Len(table))

\* prisma.order.update({ where: { id }, data: { status: "CANCELLED" } })
CancelUpdate(table, id) == [table EXCEPT ![id].status = "CANCELLED"]

\* history of the successful add-item calls for <<orderId, productId>>: the
\* quantity of the first one, the sum of their quantities, the price of the last
RecordCall(key, quantity, price) ==
    IF key \in DOMAIN added
    THEN [added EXCEPT ![key] = [first |-> @.first,
                                 quantity |-> @.quantity + quantity, price |-> price]]
    ELSE added @@ (key :> [first |-> quantity, quantity |-> quantity, price |-> price])

\* -------------------------------------------------------------- order routes
\* POST /orders
createOrderHandler(userId, totalAmount, shippingAddressId, billingAddressId) ==
    /\ req' = [op |-> "createOrder", user |-> userId, totalAmount |-> totalAmount,
               shippingAddressId |-> shippingAddressId,
               billingAddressId |-> billingAddressId]
    /\ UNCHANGED <<stock, callVars, addresses, cartVars, orderItems, payments, added>>
    /\ IF ~FindAddress(shippingAddressId, userId) \/ ~FindAddress(billingAddressId, userId)
       THEN /\ res' = Response("createOrder", 400, "invalidAddress")
            /\ UNCHANGED orders
       ELSE IF userId = NoUser
       THEN \* order.create without the required userId throws
            /\ res' = Response("createOrder", 500, "failed")
            /\ UNCHANGED orders
       ELSE /\ orders' = Append(orders,
                           [userId |-> userId, status |-> "PENDING",
                            totalAmount |-> totalAmount,
                            shippingAddressId |-> shippingAddressId,
                            billingAddressId |-> billingAddressId])
            /\ res' = Response("createOrder", 201, "ok")

\* PATCH /orders/:id/status
updateStatusHandler(userId, id, status) ==
    /\ req' = [op |-> "updateStatus", user |-> userId, id |-> id, status |-> status]
    /\ UNCHANGED <<stock, callVars, addresses, cartVars, orderItems, payments, added>>
    /\ IF status \notin Statuses
       THEN /\ res' = Response("updateStatus", 400, "validation")
            /\ UNCHANGED orders
       ELSE IF FindOrder(id, userId) = 0
       THEN /\ res' = Response("updateStatus", 404, "notFound")
            /\ UNCHANGED orders
       ELSE IF status \notin validTransitions[orders[id].status]
       THEN /\ res' = Response("updateStatus", 400, "invalidTransition")
            /\ UNCHANGED orders
       ELSE /\ orders' = [orders EXCEPT ![id].status = status]
            /\ res' = Response("updateStatus", 200, "ok")

\* POST /orders/:id/items
addOrderItemHandler(userId, id, productId, quantity, price) ==
    /\ req' = [op |-> "addOrderItem", user |-> userId, id |-> id,
               productId |-> productId, quantity |-> quantity, price |-> price]
    /\ UNCHANGED <<stock, callVars, addresses, cartVars, payments>>
    /\ IF quantity < 1
       THEN /\ res' = Response("addOrderItem", 400, "validation")
            /\ UNCHANGED <<orders, orderItems, added>>
       ELSE IF FindOrder(id, userId) = 0
       THEN /\ res' = Response("addOrderItem", 404, "notFound")
            /\ UNCHANGED <<orders, orderItems, added>>
       ELSE IF NotPending(orders[id].status)
       THEN /\ res' = Response("addOrderItem", 400, "notPending")
            /\ UNCHANGED <<orders, orderItems, added>>
       ELSE IF productId \notin DOMAIN stock \/ stock[productId] = 0
       THEN /\ res' = Response("addOrderItem", 400, "unavailable")
            /\ UNCHANGED <<orders, orderItems, added>>
       ELSE LET existingItem == ExistingItem(id, productId)
                newItems ==
                    IF existingItem # 0
                    THEN [orderItems EXCEPT ![existingItem] =
                            [@ EXCEPT !.quantity = MergedQuantity(@, quantity),
                                      !.price = price]]
                    ELSE Append(orderItems,
                            [orderId |-> id, productId |-> productId,
                             quantity |-> quantity, price |-> price])
                newTotal == ReduceTotal(FindItemsOfOrder(newItems, id), 0)
            IN  /\ existingItem # 0 =>
                       orderItems[existingItem].quantity + quantity <= MaxQty
                /\ orderItems' = newItems
                /\ orders' = [orders EXCEPT ![id].totalAmount = newTotal]
                /\ added' = RecordCall(<<id, productId>>, quantity, price)
                /\ res' = Response("addOrderItem", 201, "ok")

\* mutant of cancelOrderHandler: a cancelled order gives its products back
\* to the stock
cancelOrderHandlerRestocking(userId, id) ==
    /\ req' = [op |-> "cancelOrder", user |-> userId, id |-> id]
    /\ UNCHANGED <<callVars, addresses, cartVars, orderItems, payments, added>>
    /\ IF FindOrder(id, userId) = 0
       THEN /\ res' = Response("cancelOrder", 404, "notFound")
            /\ UNCHANGED <<orders, stock>>
       ELSE IF NotPending(orders[id].status)
       THEN /\ res' = Response("cancelOrder", 400, "notPending")
            /\ UNCHANGED <<orders, stock>>
       ELSE IF HasPayment(id)
       THEN /\ res' = Response("cancelOrder", 400, "hasPayment")
            /\ UNCHANGED <<orders, stock>>
       ELSE /\ orders' = CancelUpdate(orders, id)
            /\ stock' = [p \in DOMAIN stock |->
                           IF \E i \in DOMAIN orderItems :
                                 /\ orderItems[i].orderId = id
                                 /\ orderItems[i].productId = p
                           THEN stock[p] + 1 ELSE stock[p]]
            /\ res' = Response("cancelOrder", 204, "ok")

\* DELETE /orders/:id
cancelOrderHandler(userId, id) ==
    /\ req' = [op |-> "cancelOrder", user |-> userId, id |-> id]
    /\ UNCHANGED <<stock, callVars, addresses, cartVars, orderItems, payments, added>>
    /\ IF FindOrder(id, userId) = 0
       THEN /\ res' = Response("cancelOrder", 404, "notFound")
            /\ UNCHANGED orders
       ELSE IF NotPending(orders[id].status)
       THEN /\ res' = Response("cancelOrder", 400, "notPending")
            /\ UNCHANGED orders
       ELSE IF HasPayment(id)
       THEN /\ res' = Response("cancelOrder", 400, "hasPayment")
            /\ UNCHANGED orders
       ELSE /\ orders' = CancelUpdate(orders, id)
            /\ res' = Response("cancelOrder", 204, "ok")

\* a Payment row is recorded for an order (the payment flow is a collaborator)
PaymentRecorded(id) ==
    /\ id \in DOMAIN orders
    /\ id \notin payments
    /\ payments' = payments \cup {id}
    /\ req' = [op |-> "payment", id |-> id]
    /\ res' = Response("payment", 201, "ok")
    /\ UNCHANGED <<stock, callVars, addresses, cartVars, orders, orderItems, added>>

\* GET /orders
\* where: { userId }, orderBy: { createdAt: "desc" } over the first n Order
\* rows: the ids of the user's orders, the newest first
RECURSIVE CreatedAtDesc(_, _)
CreatedAtDesc(userId, n) ==
    IF n = 0 THEN <<>>
    ELSE (IF userId = NoUser \/ orders[n].userId = userId THEN <<n>> ELSE <<>>)
            \o CreatedAtDesc(userId, n - 1)

\* mutant of SkipTake: the offset is dropped
SkipTakeNoSkip(rows, skip, take) ==
    SubSeq(rows, 1, IF Len(rows) < take THEN Len(rows) ELSE take)

\* skip, take of findMany on the ordered rows
SkipTake(rows, skip, take) ==
    SubSeq(rows, skip + 1, IF Len(rows) < skip + take THEN Len(rows) ELSE skip + take)

\* Math.ceil(totalCount / limitNumber); a division by 0 gives Infinity or NaN,
\* which JSON renders as null
CeilOfRatio(totalCount, limitNumber) ==
    IF limitNumber = 0 THEN "null"
    ELSE (totalCount + limitNumber - 1) \div limitNumber

getOrdersHandler(userId, page, limit) ==
    /\ req' = [op |-> "getOrders", user |-> userId, page |-> page, limit |-> limit]
    /\ UNCHANGED <<stock, callVars, addresses, cartVars, orderVars>>
    /\ IF (page - 1) * limit < 0
       THEN \* findMany rejects a negative skip
            res' = Response("getOrders", 500, "failed")
       ELSE LET rows == CreatedAtDesc(userId, Len(orders))
            IN  res' = [op |-> "getOrders", code |-> 200, msg |-> "ok",
                        data |-> SkipTake(rows, (page - 1) * limit, limit),
                        total |-> Len(rows),
                        totalPages |-> CeilOfRatio(Len(rows), limit)]

\* GET /orders/:id
getOrderHandler(userId, id) ==
    /\ req' = [op |-> "getOrder", user |-> userId, id |-> id]
    /\ UNCHANGED <<stock, callVars, addresses, cartVars, orderVars>>
    /\ IF FindOrder(id, userId) = 0
       THEN res' = Response("getOrder", 404, "notFound")
       ELSE res' = [op |-> "getOrder", code |-> 200, msg |-> "ok", data |-> id]

\* ------------------------------------------------------------ address routes
\* mutant of BillingOrders: the billing side is not counted
BillingOrdersUncounted(id) == 0

\* prisma.order.count({ where: { shippingAddressId: id } })
ShippingOrders(id) ==
    Cardinality({o \in DOMAIN orders : orders[o].shippingAddressId = id})

\* prisma.order.count({ where: { billingAddressId: id } })
BillingOrders(id) ==
    Cardinality({o \in DOMAIN orders : orders[o].billingAddressId = id})

\* POST /addresses: the new row gets an id no Address row has
createAddressHandler(userId, id) ==
    /\ id \notin DOMAIN addresses
    /\ req' = [op |-> "createAddress", user |-> userId, id |-> id]
    /\ addresses' = addresses @@ (id :> userId)
    /\ res' = Response("createAddress", 201, "ok")
    /\ UNCHANGED <<stock, callVars, cartVars, orderVars>>

\* DELETE /addresses/:id
deleteAddressHandler(userId, id) ==
    /\ req' = [op |-> "deleteAddress", user |-> userId, id |-> id]
    /\ UNCHANGED <<stock, callVars, cartVars, orderVars>>
    /\ IF ~FindAddress(id, userId)
       THEN /\ res' = Response("deleteAddress", 404, "notFound")
            /\ UNCHANGED addresses
       ELSE IF ShippingOrders(id) > 0 \/ BillingOrders(id) > 0
       THEN /\ res' = Response("deleteAddress", 400, "inUse")
            /\ UNCHANGED addresses
       ELSE /\ addresses' = [a \in DOMAIN addresses \ {id} |-> addresses[a]]
            /\ res' = Response("deleteAddress", 204, "ok")

\* ------------------------------------------------------------- cart model
\* mutant of findCartByUserId: the SELECT finds no row
findCartByUserIdNoRow(userId) == 0

\* findCartByUserId: the id of the user's Cart row, 0 if there is none
findCartByUserId(userId) ==
    LET m == {c \in DOMAIN carts : carts[c] = userId}
    IN  IF m = {} THEN 0 ELSE CHOOSE c \in m : \A d \in m : c <= d

\* getOrCreateCartWithItems: the Cart table after it, and the id of the user's cart
CartsWith(userId) ==
    IF findCartByUserId(userId) # 0 THEN carts ELSE Append(carts, userId)

CartIdIn(table, userId) == CHOOSE c \in DOMAIN table : table[c] = userId

\* findCartItemById: the row, NoItem if there is none
findCartItemById(id) ==
    LET m == {it \in cartItems : it.id = id}
    IN  IF m = {} THEN NoItem ELSE CHOOSE it \in m : TRUE

\* mutant of findCartItemByCartIdAndProductId: the query matches another product's row
findCartItemOfOtherProduct(cartId, productId) ==
    LET m == {it \in cartItems : it.cartId = cartId /\ it.productId # productId}
    IN  IF m = {} THEN NoItem ELSE CHOOSE it \in m : \A o \in m : it.id <= o.id

\* findCartItemByCartIdAndProductId: rows[0] (lowest id), NoItem if there is none
findCartItemByCartIdAndProductId(cartId, productId) ==
    LET m == {it \in cartItems : it.cartId = cartId /\ it.productId = productId}
    IN  IF m = {} THEN NoItem ELSE CHOOSE it \in m : \A o \in m : it.id <= o.id

\* mutant of UpdatedQuantity: the new quantity is added to the stored one
UpdatedQuantitySummed(existing, quantity) == existing + quantity

\* updateCartItem(existingItem.id, { quantity }): the quantity the row gets
UpdatedQuantity(existing, quantity) == quantity

\* updateCartItem(id, { quantity }): UPDATE CartItem SET quantity = ? WHERE id = ?
updateCartItem(items, id, quantity) ==
    {IF it.id = id THEN [it EXCEPT !.quantity = UpdatedQuantity(it.quantity, quantity)]
                   ELSE it : it \in items}

\* mutant of deleteCartItem: the DELETE matches no row
deleteCartItemNoRow(items, id) == items

\* deleteCartItem(id): DELETE FROM CartItem WHERE id = ?
deleteCartItem(items, id) == {it \in items : it.id # id}

\* mutant of deleteCartItemsByCartId: the DELETE has no WHERE clause
deleteCartItemsOfAllCarts(items, cartId) == {}

\* deleteCartItemsByCartId(cartId): DELETE FROM CartItem WHERE cartId = ?
deleteCartItemsByCartId(items, cartId) == {it \in items : it.cartId # cartId}

\* mutant of NotInCart: the cart of the item is not compared
NotInCartUnchecked(item, cart) == item = NoItem

\* if (!item || item.cartId !== cart.id) of the update and the remove handlers
NotInCart(item, cart) == item = NoItem \/ item.cartId # cart

\* addItemToCart(cartId, productId, quantity)
addItemToCart(cartId, productId, quantity) ==
    LET existingItem == findCartItemByCartIdAndProductId(cartId, productId)
    IN  IF existingItem # NoItem
        THEN /\ cartItems' = IF quantity <= 0
                             THEN deleteCartItem(cartItems, existingItem.id)
                             ELSE updateCartItem(cartItems, existingItem.id, quantity)
             /\ UNCHANGED nextItemId
        ELSE IF quantity <= 0
        THEN UNCHANGED <<cartItems, nextItemId>>
        ELSE /\ nextItemId <= MaxItemId
             /\ cartItems' = cartItems \cup
                    {[id |-> nextItemId, cartId |-> cartId,
                      productId |-> productId, quantity |-> quantity]}
             /\ nextItemId' = nextItemId + 1

\* CartModel.addItemToCart called on an existing cart for an existing product,
\* without the route in front of it; it returns the row, or null
addItemToCartCall(cartId, productId, quantity) ==
    /\ cartId \in DOMAIN carts
    /\ productId \in DOMAIN stock
    /\ req' = [op |-> "addItemToCart", user |-> carts[cartId], cartId |-> cartId,
               productId |-> productId, quantity |-> quantity]
    /\ addItemToCart(cartId, productId, quantity)
    /\ res' = Response("addItemToCart", 0, IF quantity <= 0 THEN "null" ELSE "item")
    /\ UNCHANGED <<stock, callVars, addresses, carts, orderVars>>

\* mutant of ExceedsStock: the stock is never looked at
ExceedsStockNever(quantity, available) == FALSE

\* mutant of ExceedsStock: the comparison is inverted
ExceedsStockInverted(quantity, available) == quantity < available

\* if (quantity > product.stock) of the add-item and the update-item handlers
ExceedsStock(quantity, available) == quantity > available

\* addCartItemValidator: quantity isInt({ min: 1 }) and isInt({ max: 200 })
addCartItemValidator(quantity) == quantity >= 1 /\ quantity <= AddQuantityMax

\* updateCartItemValidator: quantity isInt({ min: 1 })
updateCartItemValidator(quantity) == quantity >= 1

\* --------------------------------------------------------------- cart routes
\* GET /cart
getCartHandler(userId) ==
    /\ req' = [op |-> "getCart", user |-> userId]
    /\ carts' = CartsWith(userId)
    /\ res' = [op |-> "getCart", code |-> 200, msg |-> "ok",
               cartId |-> CartIdIn(carts', userId)]
    /\ UNCHANGED <<stock, callVars, addresses, cartItems, nextItemId, orderVars>>

\* POST /cart/items
addItemToCartHandler(userId, productId, quantity) ==
    /\ req' = [op |-> "addItem", user |-> userId, productId |-> productId,
               quantity |-> quantity]
    /\ UNCHANGED <<stock, callVars, addresses, orderVars>>
    /\ IF ~addCartItemValidator(quantity)
       THEN /\ res' = Response("addItem", 400, "validation")
            /\ UNCHANGED cartVars
       ELSE IF productId \notin DOMAIN stock
       THEN /\ res' = Response("addItem", 404, "productNotFound")
            /\ UNCHANGED cartVars
       ELSE IF ExceedsStock(quantity, stock[productId])
       THEN /\ res' = Response("addItem", 400, "exceedsStock")
            /\ UNCHANGED cartVars
       ELSE /\ carts' = CartsWith(userId)
            /\ addItemToCart(CartIdIn(carts', userId), productId, quantity)
            /\ res' = Response("addItem", 201, "ok")

\* PUT /cart/items/:itemId
updateCartItemHandler(userId, cartItemId, quantity) ==
    /\ req' = [op |-> "updateItem", user |-> userId, itemId |-> cartItemId,
               quantity |-> quantity]
    /\ UNCHANGED <<stock, callVars, addresses, carts, nextItemId, orderVars>>
    /\ LET cart == findCartByUserId(userId)
           item == findCartItemById(cartItemId)
       IN  IF ~updateCartItemValidator(quantity)
           THEN /\ res' = Response("updateItem", 400, "validation")
                /\ UNCHANGED cartItems
           ELSE IF cart = 0
           THEN /\ res' = Response("updateItem", 404, "cartNotFound")
                /\ UNCHANGED cartItems
           ELSE IF NotInCart(item, cart)
           THEN /\ res' = Response("updateItem", 404, "itemNotFound")
                /\ UNCHANGED cartItems
           ELSE IF item.productId \notin DOMAIN stock
           THEN /\ res' = Response("updateItem", 404, "productNotFound")
                /\ UNCHANGED cartItems
           ELSE IF ExceedsStock(quantity, stock[item.productId])
           THEN /\ res' = Response("updateItem", 400, "exceedsStock")
                /\ UNCHANGED cartItems
           ELSE IF quantity <= 0
           THEN /\ cartItems' = deleteCartItem(cartItems, cartItemId)
                /\ res' = Response("updateItem", 200, "removed")
           ELSE /\ cartItems' = updateCartItem(cartItems, cartItemId, quantity)
                /\ res' = Response("updateItem", 200, "ok")

\* DELETE /cart/items/:itemId
removeCartItemHandler(userId, cartItemId) ==
    /\ req' = [op |-> "removeItem", user |-> userId, itemId |-> cartItemId]
    /\ UNCHANGED <<stock, callVars, addresses, carts, nextItemId, orderVars>>
    /\ LET cart == findCartByUserId(userId)
           item == findCartItemById(cartItemId)
       IN  IF cart = 0
           THEN /\ res' = Response("removeItem", 404, "cartNotFound")
                /\ UNCHANGED cartItems
           ELSE IF NotInCart(item, cart)
           THEN /\ res' = Response("removeItem", 404, "itemNotFound")
                /\ UNCHANGED cartItems
           ELSE /\ cartItems' = deleteCartItem(cartItems, cartItemId)
                /\ res' = Response("removeItem", 200, "ok")

\* DELETE /cart
clearCartHandler(userId) ==
    /\ req' = [op |-> "clearCart", user |-> userId]
    /\ UNCHANGED <<stock, callVars, addresses, carts, nextItemId, orderVars>>
    /\ LET cart == findCartByUserId(userId)
       IN  cartItems' = IF cart # 0 THEN deleteCartItemsByCartId(cartItems, cart)
                        ELSE cartItems
    /\ res' = Response("clearCart", 200, "ok")

\* ------------------------------------------- cart requests, call by call
\* The cart handlers again, one action per stretch between two database
\* calls that another request can tell apart: calls[c] holds the request in
\* slot c (the request itself, where it stands, what it has read so far).
\* A transaction commits in the action of its last statement.

\* mutant of OwnsConnection: a helper treats every connection as its own
OwnsConnectionAlways(internalConnection) == TRUE

\* if (!internalConnection) of the model helpers: the helper was handed no
\* connection and works on one it acquired itself
OwnsConnection(internalConnection) == ~internalConnection

\* internalConnection || (await pool.getConnection()): connections a helper acquires
HelperAcquires(internalConnection) == IF internalConnection THEN 0 ELSE 1

\* finally { if (!internalConnection) connection.release(); }: connections a
\* helper gives back
HelperReleases(internalConnection) ==
    IF OwnsConnection(internalConnection) THEN 1 ELSE 0

\* the response of a finished cart request
Reply(c, code, msg, cartId) ==
    [op |-> calls[c].op, code |-> code, msg |-> msg, user |-> calls[c].user,
     cartId |-> cartId, call |-> c]

\* POST /cart/items: validationResult(req), then the request is in flight
addItemStart(c, userId, productId, quantity) ==
    /\ calls[c] = Idle
    /\ UNCHANGED <<stock, addresses, cartVars, orderVars, checkedOut, req>>
    /\ IF ~addCartItemValidator(quantity)
       THEN /\ res' = [op |-> "addItem", code |-> 400, msg |-> "validation",
                       user |-> userId, cartId |-> 0, call |-> c]
            /\ UNCHANGED calls
       ELSE /\ calls' = [calls EXCEPT ![c] =
                            [pc |-> "product", op |-> "addItem", user |-> userId,
                             productId |-> productId, quantity |-> quantity,
                             cart |-> 0, existing |-> 0, pending |-> {}]]
            /\ UNCHANGED res

\* findProductById and the stock check of addItemToCartHandler
addItemCheckProduct(c) ==
    /\ calls[c].pc = "product"
    /\ UNCHANGED <<stock, addresses, cartVars, orderVars, checkedOut, req>>
    /\ IF calls[c].productId \notin DOMAIN stock
       THEN /\ res' = Reply(c, 404, "productNotFound", 0)
            /\ calls' = [calls EXCEPT ![c] = Idle]
       ELSE IF ExceedsStock(calls[c].quantity, stock[calls[c].productId])
       THEN /\ res' = Reply(c, 400, "exceedsStock", 0)
            /\ calls' = [calls EXCEPT ![c] = Idle]
       ELSE /\ calls' = [calls EXCEPT ![c].pc = "findCart"]
            /\ UNCHANGED res

\* GET /cart: getCartWithItemsByUserId answers when the user has a cart
getCartStart(c, userId) ==
    /\ calls[c] = Idle
    /\ UNCHANGED <<stock, addresses, cartVars, orderVars, req>>
    /\ checkedOut' = checkedOut + HelperAcquires(FALSE) - HelperReleases(FALSE)
    /\ IF findCartByUserId(userId) # 0
       THEN /\ res' = [op |-> "getCart", code |-> 200, msg |-> "ok",
                       user |-> userId, cartId |-> findCartByUserId(userId),
                       call |-> c]
            /\ UNCHANGED calls
       ELSE /\ calls' = [calls EXCEPT ![c] =
                            [pc |-> "findCart", op |-> "getCart", user |-> userId,
                             productId |-> NoProduct, quantity |-> 0,
                             cart |-> 0, existing |-> 0, pending |-> {}]]
            /\ UNCHANGED res

\* what a request does once it has its cart: getCart answers, addItem goes on
\* to addItemToCart
WithCart(c, cartId) ==
    IF calls[c].op = "getCart"
    THEN /\ res' = Reply(c, 200, "ok", cartId)
         /\ calls' = [calls EXCEPT ![c] = Idle]
    ELSE /\ calls' = [calls EXCEPT ![c].pc = "lookupItem", ![c].cart = cartId]
         /\ UNCHANGED res

\* getOrCreateCartWithItems: getConnection, beginTransaction, findCartByUserId
\* on that connection; with a cart it reads the items (findCartItemsByCartId
\* on that connection), commits and releases
getOrCreateFind(c) ==
    /\ calls[c].pc = "findCart"
    /\ UNCHANGED <<stock, addresses, cartVars, orderVars, req>>
    /\ IF findCartByUserId(calls[c].user) # 0
       THEN /\ WithCart(c, findCartByUserId(calls[c].user))
            /\ checkedOut' = checkedOut + 1 - HelperReleases(TRUE)
                                - HelperReleases(TRUE) - 1
       ELSE /\ calls' = [calls EXCEPT ![c].pc = "createCart"]
            /\ checkedOut' = checkedOut + 1 - HelperReleases(TRUE)
            /\ UNCHANGED res

\* createCart inside getOrCreateCartWithItems: INSERT INTO Cart (userId); the
\* UNIQUE key on userId refuses it when a row of the user has been committed
\* since the lookup, and the error ends the request with 500
getOrCreateInsert(c) ==
    /\ calls[c].pc = "createCart"
    /\ UNCHANGED <<stock, addresses, cartItems, nextItemId, orderVars, req>>
    /\ checkedOut' = checkedOut - HelperReleases(TRUE) - 1
    /\ IF findCartByUserId(calls[c].user) # 0
       THEN /\ res' = Reply(c, 500, "failed", 0)
            /\ calls' = [calls EXCEPT ![c] = Idle]
            /\ UNCHANGED carts
       ELSE /\ carts' = Append(carts, calls[c].user)
            /\ WithCart(c, Len(carts) + 1)

\* addItemToCart: getConnection, beginTransaction,
\* findCartItemByCartIdAndProductId
addItemToCartLookup(c) ==
    /\ calls[c].pc = "lookupItem"
    /\ UNCHANGED <<stock, addresses, cartVars, orderVars, req, res>>
    /\ checkedOut' = checkedOut + 1 - HelperReleases(TRUE)
    /\ calls' = [calls EXCEPT
                    ![c].pc = "write",
                    ![c].existing =
                        findCartItemByCartIdAndProductId(calls[c].cart,
                                                         calls[c].productId).id]

\* mutant of Rollback: the statements of the failed transaction stay
RollbackKeepsWrites(table, pending) ==
    {it \in table : \A w \in pending : w.id # it.id} \cup pending

\* connection.rollback(): the rows the transaction wrote are dropped
Rollback(table, pending) == table

\* connection.commit(): the rows the transaction wrote replace the stored ones
Commit(table, pending) ==
    {it \in table : \A w \in pending : w.id # it.id} \cup pending

\* if (!internalConnection) await connection.commit() of a helper: the table
\* after the helper has written `pending'
HelperCommits(internalConnection, table, pending) ==
    IF OwnsConnection(internalConnection) THEN Commit(table, pending) ELSE table

\* the rows still uncommitted when the helper returns
HelperLeaves(internalConnection, pending) ==
    IF OwnsConnection(internalConnection) THEN {} ELSE pending

\* another transaction holds the lock of row `id': it has updated the row and
\* not yet committed
RowLocked(c, id) ==
    \E o \in CallIds \ {c} :
        /\ calls[o].pc \in {"commit", "commitUpdate"}
        /\ \E w \in calls[o].pending : w.id = id

\* UPDATE `CartItem` SET quantity = ? WHERE id = ?: the row as written
UpdatedRow(id, quantity) ==
    {it \in updateCartItem(cartItems, id, quantity) : it.id = id}

\* addItemToCart: updateCartItem of the row found, or createCartItem when none
\* was found, both on the connection of addItemToCart (the handler lets no
\* quantity below 1 through, so the branches of quantity <= 0 are not taken);
\* an UPDATE that matches no row throws, and the catch block rolls back and
\* the finally block releases
addItemToCartWrite(c) ==
    /\ calls[c].pc = "write"
    /\ UNCHANGED <<stock, addresses, carts, orderVars, req>>
    /\ IF calls[c].existing # 0
       THEN IF findCartItemById(calls[c].existing) = NoItem
            THEN /\ res' = Reply(c, 500, "failed", calls[c].cart)
                 /\ calls' = [calls EXCEPT ![c] = Idle]
                 /\ cartItems' = Rollback(cartItems, calls[c].pending)
                 /\ checkedOut' = checkedOut - HelperReleases(TRUE) - 1
                 /\ UNCHANGED nextItemId
            ELSE /\ ~RowLocked(c, calls[c].existing)
                 /\ LET written == UpdatedRow(calls[c].existing, calls[c].quantity)
                    IN  /\ cartItems' = HelperCommits(TRUE, cartItems, written)
                        /\ calls' = [calls EXCEPT
                                        ![c].pc = "commit",
                                        ![c].pending = HelperLeaves(TRUE, written)]
                 /\ checkedOut' = checkedOut - HelperReleases(TRUE)
                 /\ UNCHANGED <<nextItemId, res>>
       ELSE /\ nextItemId <= MaxItemId
            /\ LET written == {[id |-> nextItemId, cartId |-> calls[c].cart,
                                productId |-> calls[c].productId,
                                quantity |-> calls[c].quantity]}
               IN  /\ cartItems' = HelperCommits(TRUE, cartItems, written)
                   /\ calls' = [calls EXCEPT
                                   ![c].pc = "commit",
                                   ![c].pending = HelperLeaves(TRUE, written)]
            /\ nextItemId' = nextItemId + 1
            /\ checkedOut' = checkedOut - HelperReleases(TRUE)
            /\ UNCHANGED res

\* addItemToCart: connection.commit(), connection.release(), and the handler's 201
addItemToCartCommit(c) ==
    /\ calls[c].pc = "commit"
    /\ cartItems' = Commit(cartItems, calls[c].pending)
    /\ checkedOut' = checkedOut - 1
    /\ res' = Reply(c, 201, "ok", calls[c].cart)
    /\ calls' = [calls EXCEPT ![c] = Idle]
    /\ UNCHANGED <<stock, addresses, carts, nextItemId, orderVars, req>>

\* the database call a cart request is waiting for rejects: the helper that
\* ran it on the handed connection rethrows, the catch block of
\* getOrCreateCartWithItems / addItemToCart rolls back, its finally block
\* releases the connection, and the handler answers 500
cartCallThrows(c) ==
    /\ calls[c].pc \in {"findCart", "createCart", "lookupItem", "write", "commit"}
    /\ cartItems' = Rollback(cartItems, calls[c].pending)
    /\ checkedOut' =
          checkedOut
          + (IF calls[c].pc \in {"findCart", "lookupItem"} THEN 1 ELSE 0)
          - (IF calls[c].pc = "commit" THEN 0 ELSE HelperReleases(TRUE))
          - 1
    /\ res' = Reply(c, 500, "failed", calls[c].cart)
    /\ calls' = [calls EXCEPT ![c] = Idle]
    /\ UNCHANGED <<stock, addresses, carts, nextItemId, orderVars, req>>

\* ---------------------------------------- model functions, call by call
\* CartModel.updateCartItem(id, { quantity }) called with no connection, as
\* updateCartItemHandler calls it: getConnection, beginTransaction, the
\* UPDATE; an UPDATE that matches no row throws, and the function rolls back
\* and releases
updateCartItemExecute(c, id, quantity) ==
    /\ calls[c] = Idle
    /\ UNCHANGED <<stock, addresses, carts, nextItemId, orderVars, req>>
    /\ IF findCartItemById(id) = NoItem
       THEN /\ res' = [op |-> "updateCartItem", code |-> 0, msg |-> "throws",
                       call |-> c]
            /\ cartItems' = Rollback(cartItems, {})
            /\ checkedOut' = checkedOut + HelperAcquires(FALSE)
                                - HelperReleases(TRUE) - HelperReleases(FALSE)
            /\ UNCHANGED calls
       ELSE /\ ~RowLocked(c, id)
            /\ calls' = [calls EXCEPT ![c] =
                            [pc |-> "commitUpdate", op |-> "updateCartItem",
                             pending |-> UpdatedRow(id, quantity)]]
            /\ checkedOut' = checkedOut + HelperAcquires(FALSE)
                                - HelperReleases(TRUE)
            /\ UNCHANGED <<cartItems, res>>

\* CartModel.updateCartItem: its own commit and release
updateCartItemCommit(c) ==
    /\ calls[c].pc = "commitUpdate"
    /\ cartItems' = HelperCommits(FALSE, cartItems, calls[c].pending)
    /\ checkedOut' = checkedOut - HelperReleases(FALSE)
    /\ res' = [op |-> "updateCartItem", code |-> 0, msg |-> "item", call |-> c]
    /\ calls' = [calls EXCEPT ![c] = Idle]
    /\ UNCHANGED <<stock, addresses, carts, nextItemId, orderVars, req>>

\* OrderModel.createOrder: getConnection, beginTransaction, INSERT INTO Order
createOrderInsert(c, userId, totalAmount, shippingAddressId, billingAddressId) ==
    /\ calls[c] = Idle
    /\ calls' = [calls EXCEPT ![c] =
                    [pc |-> "findOrder", op |-> "createOrder",
                     row |-> [userId |-> userId, status |-> "pending",
                              totalAmount |-> totalAmount,
                              shippingAddressId |-> shippingAddressId,
                              billingAddressId |-> billingAddressId]]]
    /\ checkedOut' = checkedOut + 1
    /\ UNCHANGED <<stock, addresses, cartVars, orderVars, req, res>>

\* OrderModel.createOrder: findOrderById(insertId, connection)
createOrderFind(c) ==
    /\ calls[c].pc = "findOrder"
    /\ calls' = [calls EXCEPT ![c].pc = "commitOrder"]
    /\ checkedOut' = checkedOut + HelperAcquires(TRUE) - HelperReleases(TRUE)
    /\ UNCHANGED <<stock, addresses, cartVars, orderVars, req, res>>

\* OrderModel.createOrder: connection.commit() and connection.release()
createOrderCommit(c) ==
    /\ calls[c].pc = "commitOrder"
    /\ orders' = Append(orders, calls[c].row)
    /\ checkedOut' = checkedOut - 1
    /\ res' = [op |-> "createOrderModel", code |-> 0, msg |-> "order", call |-> c]
    /\ calls' = [calls EXCEPT ![c] = Idle]
    /\ UNCHANGED <<stock, addresses, cartVars, orderItems, payments, added, req>>

\* the database call a model function is waiting for rejects: its catch block
\* rolls back and its finally block releases the connection it acquired
modelCallThrows(c) ==
    /\ calls[c].pc \in {"commitUpdate", "findOrder", "commitOrder"}
    /\ cartItems' = IF calls[c].pc = "commitUpdate"
                    THEN Rollback(cartItems, calls[c].pending) ELSE cartItems
    /\ checkedOut' =
          checkedOut
          - (IF calls[c].pc = "findOrder" THEN HelperReleases(TRUE) ELSE 0)
          - (IF calls[c].pc = "commitUpdate" THEN HelperReleases(FALSE) ELSE 1)
    /\ res' = [op |-> calls[c].op, code |-> 0, msg |-> "throws", call |-> c]
    /\ calls' = [calls EXCEPT ![c] = Idle]
    /\ UNCHANGED <<stock, addresses, carts, nextItemId, orderVars, req>>

\* ------------------------------------------ order requests, call by call
\* The handlers of the order router hold no transaction: every prisma call is
\* a statement of its own, and other requests run between two of them.

\* the response of an order request in flight
OrderReply(c, code, msg) ==
    [op |-> calls[c].op, code |-> code, msg |-> msg, call |-> c]

\* PATCH /orders/:id/status up to the transition check: validationResult,
\* order.findUnique, validTransitions[currentOrder.status].includes(status)
updateStatusRead(c, userId, id, status) ==
    /\ calls[c] = Idle
    /\ UNCHANGED <<stock, addresses, cartVars, orderVars, checkedOut, req>>
    /\ LET answer(code, msg) ==
               /\ res' = [op |-> "updateStatus", code |-> code, msg |-> msg,
                          call |-> c]
               /\ UNCHANGED calls
       IN  IF status \notin Statuses THEN answer(400, "validation")
           ELSE IF FindOrder(id, userId) = 0 THEN answer(404, "notFound")
           ELSE IF status \notin validTransitions[orders[id].status]
           THEN answer(400, "invalidTransition")
           ELSE /\ calls' = [calls EXCEPT ![c] =
                                [pc |-> "writeStatus", op |-> "updateStatus",
                                 user |-> userId, id |-> id, status |-> status,
                                 read |-> orders[id].status]]
                /\ UNCHANGED res

\* PATCH /orders/:id/status: order.update({ where: { id, userId }, data: { status } })
updateStatusWrite(c) ==
    /\ calls[c].pc = "writeStatus"
    /\ orders' = [orders EXCEPT ![calls[c].id].status = calls[c].status]
    /\ res' = OrderReply(c, 200, "ok")
    /\ calls' = [calls EXCEPT ![c] = Idle]
    /\ UNCHANGED <<stock, addresses, cartVars, orderItems, payments, added,
                   checkedOut, req>>

\* DELETE /orders/:id up to the status check: order.findUnique
cancelOrderRead(c, userId, id) ==
    /\ calls[c] = Idle
    /\ UNCHANGED <<stock, addresses, cartVars, orderVars, checkedOut, req>>
    /\ LET answer(code, msg) ==
               /\ res' = [op |-> "cancelOrder", code |-> code, msg |-> msg,
                          call |-> c]
               /\ UNCHANGED calls
       IN  IF FindOrder(id, userId) = 0 THEN answer(404, "notFound")
           ELSE IF NotPending(orders[id].status) THEN answer(400, "notPending")
           ELSE /\ calls' = [calls EXCEPT ![c] =
                                [pc |-> "payment", op |-> "cancelOrder",
                                 user |-> userId, id |-> id,
                                 read |-> orders[id].status]]
                /\ UNCHANGED res

\* DELETE /orders/:id: payment.findUnique({ where: { orderId: id } })
cancelOrderPayment(c) ==
    /\ calls[c].pc = "payment"
    /\ UNCHANGED <<stock, addresses, cartVars, orderVars, checkedOut, req>>
    /\ IF HasPayment(calls[c].id)
       THEN /\ res' = OrderReply(c, 400, "hasPayment")
            /\ calls' = [calls EXCEPT ![c] = Idle]
       ELSE /\ calls' = [calls EXCEPT ![c].pc = "writeCancel"]
            /\ UNCHANGED res

\* DELETE /orders/:id: order.update({ where: { id }, data: { status: "CANCELLED" } })
cancelOrderWrite(c) ==
    /\ calls[c].pc = "writeCancel"
    /\ orders' = CancelUpdate(orders, calls[c].id)
    /\ res' = OrderReply(c, 204, "ok")
    /\ calls' = [calls EXCEPT ![c] = Idle]
    /\ UNCHANGED <<stock, addresses, cartVars, orderItems, payments, added,
                   checkedOut, req>>

\* POST /orders/:id/items up to the first write: validationResult,
\* order.findUnique({ include: { items: true } }), the status check, the
\* product lookup and order.items.find
addOrderItemRead(c, userId, id, productId, quantity, price) ==
    /\ calls[c] = Idle
    /\ UNCHANGED <<stock, addresses, cartVars, orderVars, checkedOut, req>>
    /\ LET answer(code, msg) ==
               /\ res' = [op |-> "addOrderItem", code |-> code, msg |-> msg,
                          call |-> c]
               /\ UNCHANGED calls
           existingItem == ExistingItem(id, productId)
       IN  IF quantity < 1 THEN answer(400, "validation")
           ELSE IF FindOrder(id, userId) = 0 THEN answer(404, "notFound")
           ELSE IF NotPending(orders[id].status) THEN answer(400, "notPending")
           ELSE IF productId \notin DOMAIN stock \/ stock[productId] = 0
           THEN answer(400, "unavailable")
           ELSE /\ existingItem # 0 =>
                       orderItems[existingItem].quantity + quantity <= MaxQty
                /\ calls' = [calls EXCEPT ![c] =
                                [pc |-> "writeItem", op |-> "addOrderItem",
                                 user |-> userId, id |-> id,
                                 productId |-> productId, quantity |-> quantity,
                                 price |-> price,
                                 read |-> orders[id].status,
                                 totalAmount |-> orders[id].totalAmount,
                                 items |-> FindItemsOfOrder(orderItems, id),
                                 existing |-> existingItem,
                                 existingQuantity |->
                                     IF existingItem = 0 THEN 0
                                     ELSE orderItems[existingItem].quantity,
                                 newTotal |-> 0]]
                /\ UNCHANGED res

\* POST /orders/:id/items: orderItem.update of the row found, with
\* existingItem.quantity as it was read, or orderItem.create
addOrderItemWrite(c) ==
    /\ calls[c].pc = "writeItem"
    /\ orderItems' =
          IF calls[c].existing # 0
          THEN [orderItems EXCEPT ![calls[c].existing] =
                  [@ EXCEPT !.quantity = MergedQuantity(calls[c].existingQuantity,
                                                        calls[c].quantity),
                            !.price = calls[c].price]]
          ELSE Append(orderItems,
                  [orderId |-> calls[c].id, productId |-> calls[c].productId,
                   quantity |-> calls[c].quantity, price |-> calls[c].price])
    /\ calls' = [calls EXCEPT ![c].pc = "sumItems"]
    /\ UNCHANGED <<stock, addresses, cartVars, orders, payments, added,
                   checkedOut, req, res>>

\* POST /orders/:id/items: orderItem.findMany and items.reduce
addOrderItemSum(c) ==
    /\ calls[c].pc = "sumItems"
    /\ calls' = [calls EXCEPT
                    ![c].pc = "writeTotal",
                    ![c].newTotal =
                        ReduceTotal(FindItemsOfOrder(orderItems, calls[c].id), 0)]
    /\ UNCHANGED <<stock, addresses, cartVars, orderVars, checkedOut, req, res>>

\* POST /orders/:id/items: order.update({ data: { totalAmount: newTotal } })
addOrderItemTotal(c) ==
    /\ calls[c].pc = "writeTotal"
    /\ orders' = [orders EXCEPT ![calls[c].id].totalAmount = calls[c].newTotal]
    /\ res' = OrderReply(c, 201, "ok")
    /\ calls' = [calls EXCEPT ![c] = Idle]
    /\ UNCHANGED <<stock, addresses, cartVars, orderItems, payments, added,
                   checkedOut, req>>

\* the prisma call an order request is waiting for rejects: the catch block
\* of the handler answers 500 and nothing is undone
orderCallThrows(c) ==
    /\ calls[c].pc \in {"writeStatus", "payment", "writeCancel", "writeItem",
                        "sumItems", "writeTotal"}
    /\ res' = OrderReply(c, 500, "failed")
    /\ calls' = [calls EXCEPT ![c] = Idle]
    /\ UNCHANGED <<stock, addresses, cartVars, orderVars, checkedOut, req>>

\* PUT /products/:productId with a stock field
updateProductHandler(productId, newStock) ==
    /\ req' = [op |-> "updateProduct", productId |-> productId, stock |-> newStock]
    /\ UNCHANGED <<addresses, callVars, cartVars, orderVars>>
    /\ IF productId \notin DOMAIN stock
       THEN /\ res' = Response("updateProduct", 404, "productNotFound")
            /\ UNCHANGED stock
       ELSE /\ stock' = [stock EXCEPT ![productId] = newStock]
            /\ res' = Response("updateProduct", 200, "ok")

\* -------------------------------------------------------------------- state
InitStock == ("p1" :> 1) @@ ("p2" :> BigQty) @@ ("p3" :> 0)

Init ==
    /\ stock = InitStock
    /\ addresses = ("a1" :> "u1")
    /\ carts = <<>>
    /\ cartItems = {}
    /\ nextItemId = 1
    /\ orders = <<>>
    /\ orderItems = <<>>
    /\ payments = {}
    /\ added = <<>>
    /\ req = [op |-> "none"]
    /\ res = Response("none", 0, "none")
    /\ calls = [c \in CallIds |-> Idle]
    /\ checkedOut = 0

OrderNext ==
    \/ \E u \in Users, t \in TotalInputs, s \in AddressIds, b \in AddressIds :
         /\ Len(orders) < Cardinality(OrderIdInputs)
         /\ createOrderHandler(u, t, s, b)
    \/ \E u \in Users, id \in OrderIdInputs, s \in StatusInputs :
         updateStatusHandler(u, id, s)
    \/ \E u \in Users, id \in OrderIdInputs, p \in ProductIds,
          q \in OrderQtyInputs, pr \in PriceInputs :
         addOrderItemHandler(u, id, p, q, pr)
    \/ \E u \in Users, id \in OrderIdInputs : cancelOrderHandler(u, id)
    \/ \E id \in OrderIdInputs : PaymentRecorded(id)

OrderSpec == Init /\ [][OrderNext]_vars

CartNext ==
    \/ \E u \in Users : getCartHandler(u)
    \/ \E u \in Users, p \in ProductIds, q \in CartQtyInputs :
         addItemToCartHandler(u, p, q)
    \/ \E u \in Users, i \in ItemIdInputs, q \in CartQtyInputs :
         updateCartItemHandler(u, i, q)
    \/ \E u \in Users, i \in ItemIdInputs : removeCartItemHandler(u, i)
    \/ \E u \in Users : clearCartHandler(u)
    \/ \E p \in RestockIds, s \in Stocks : updateProductHandler(p, s)

CartSpec == Init /\ [][CartNext]_vars

\* the address routes together with the order routes that read Address rows
\* or change the status of an order
AddressNext ==
    \/ \E u \in Users, id \in AddressPool : createAddressHandler(u, id)
    \/ \E u \in Users, id \in AddressInputs : deleteAddressHandler(u, id)
    \/ \E u \in Users, t \in TotalInputs, s \in AddressInputs, b \in AddressInputs :
         /\ Len(orders) < Cardinality(OrderIdInputs)
         /\ createOrderHandler(u, t, s, b)
    \/ \E u \in Users, id \in OrderIdInputs, s \in Statuses :
         updateStatusHandler(u, id, s)
    \/ \E u \in Users, id \in OrderIdInputs : cancelOrderHandler(u, id)

AddressSpec == Init /\ [][AddressNext]_vars

\* the order listing, with the routes that create what it lists
ListNext ==
    \/ \E u \in Users, id \in AddressPool : createAddressHandler(u, id)
    \/ \E u \in Users, t \in TotalInputs, a \in AddressPool :
         /\ Len(orders) < MaxOrders
         /\ createOrderHandler(u, t, a, a)
    \/ \E u \in Users, p \in PageInputs, l \in LimitInputs : getOrdersHandler(u, p, l)

ListSpec == Init /\ [][ListNext]_vars

\* the order routes as app.use("/api/orders", orderRouter) mounts them: no
\* middleware runs before them, so a request without a token reaches them too
MountedOrderNext ==
    \/ \E u \in UserInputs, t \in TotalInputs, s \in AddressIds, b \in AddressIds :
         /\ Len(orders) < Cardinality(OrderIdInputs)
         /\ createOrderHandler(u, t, s, b)
    \/ \E u \in UserInputs, p \in PageInputs, l \in LimitInputs : getOrdersHandler(u, p, l)
    \/ \E u \in UserInputs, id \in OrderIdInputs : getOrderHandler(u, id)
    \/ \E u \in UserInputs, id \in OrderIdInputs, s \in StatusInputs :
         updateStatusHandler(u, id, s)
    \/ \E u \in UserInputs, id \in OrderIdInputs, q \in OrderQtyInputs, pr \in PriceInputs :
         addOrderItemHandler(u, id, "p1", q, pr)
    \/ \E u \in UserInputs, id \in OrderIdInputs : cancelOrderHandler(u, id)

MountedOrderSpec == Init /\ [][MountedOrderNext]_vars

\* order requests that interleave between their prisma calls
OrderRaceNext ==
    \/ \E t \in TotalInputs :
         /\ Len(orders) < Cardinality(OrderIdInputs)
         /\ createOrderHandler("u1", t, "a1", "a1")
    \/ \E c \in CallIds, u \in Users, id \in OrderIdInputs, s \in StatusInputs :
         updateStatusRead(c, u, id, s)
    \/ \E c \in CallIds : updateStatusWrite(c)
    \/ \E c \in CallIds, u \in Users, id \in OrderIdInputs : cancelOrderRead(c, u, id)
    \/ \E c \in CallIds : cancelOrderPayment(c)
    \/ \E c \in CallIds : cancelOrderWrite(c)
    \/ \E c \in CallIds, u \in Users, id \in OrderIdInputs,
          q \in OrderQtyInputs, pr \in PriceInputs :
         addOrderItemRead(c, u, id, "p1", q, pr)
    \/ \E c \in CallIds : addOrderItemWrite(c)
    \/ \E c \in CallIds : addOrderItemSum(c)
    \/ \E c \in CallIds : addOrderItemTotal(c)
    \/ \E id \in OrderIdInputs : PaymentRecorded(id)

OrderRaceSpec == Init /\ [][OrderRaceNext]_vars

\* one order request at a time, any of whose prisma calls may reject
OrderFaultNext ==
    \/ \E t \in TotalInputs :
         /\ Len(orders) < Cardinality(OrderIdInputs)
         /\ createOrderHandler("u1", t, "a1", "a1")
    \/ \E u \in Users, id \in OrderIdInputs, s \in StatusInputs :
         updateStatusRead(1, u, id, s)
    \/ updateStatusWrite(1)
    \/ \E u \in Users, id \in OrderIdInputs : cancelOrderRead(1, u, id)
    \/ cancelOrderPayment(1)
    \/ cancelOrderWrite(1)
    \/ \E u \in Users, id \in OrderIdInputs, p \in ProductIds,
          q \in OrderQtyInputs, pr \in PriceInputs :
         addOrderItemRead(1, u, id, p, q, pr)
    \/ addOrderItemWrite(1)
    \/ addOrderItemSum(1)
    \/ addOrderItemTotal(1)
    \/ orderCallThrows(1)
    \/ \E id \in OrderIdInputs : PaymentRecorded(id)

OrderFaultSpec == Init /\ [][OrderFaultNext]_vars

\* the cart and the order handlers of one user next to the product updates
ShopNext ==
    \/ \E p \in {"p1", "p2"} : addItemToCartHandler("u1", p, 1)
    \/ \E i \in ItemIdInputs, q \in CartQtyInputs : updateCartItemHandler("u1", i, q)
    \/ \E i \in ItemIdInputs : removeCartItemHandler("u1", i)
    \/ clearCartHandler("u1")
    \/ /\ Len(orders) < Cardinality(OrderIdInputs)
       /\ createOrderHandler("u1", 0, "a1", "a1")
    \/ \E id \in OrderIdInputs, s \in Statuses : updateStatusHandler("u1", id, s)
    \/ \E id \in OrderIdInputs, q \in OrderQtyInputs :
         addOrderItemHandler("u1", id, "p1", q, 1)
    \/ \E id \in OrderIdInputs : cancelOrderHandler("u1", id)
    \/ \E p \in RestockIds, st \in Stocks : updateProductHandler(p, st)

ShopSpec == Init /\ [][ShopNext]_vars

\* cart requests that interleave between their database calls
CartRaceNext ==
    \/ \E c \in CallIds, u \in Users, p \in RestockIds \cup {"p2"}, q \in CartQtyInputs :
         addItemStart(c, u, p, q)
    \/ \E c \in CallIds : addItemCheckProduct(c)
    \/ \E c \in CallIds, u \in Users : getCartStart(c, u)
    \/ \E c \in CallIds : getOrCreateFind(c)
    \/ \E c \in CallIds : getOrCreateInsert(c)
    \/ \E c \in CallIds : addItemToCartLookup(c)
    \/ \E c \in CallIds : addItemToCartWrite(c)
    \/ \E c \in CallIds : addItemToCartCommit(c)

CartRaceSpec == Init /\ [][CartRaceNext]_vars

\* one cart request at a time, any of whose database calls may reject
CartFaultNext ==
    \/ \E u \in Users, p \in ProductIds, q \in CartQtyInputs : addItemStart(1, u, p, q)
    \/ addItemCheckProduct(1)
    \/ \E u \in Users : getCartStart(1, u)
    \/ getOrCreateFind(1)
    \/ getOrCreateInsert(1)
    \/ addItemToCartLookup(1)
    \/ addItemToCartWrite(1)
    \/ addItemToCartCommit(1)
    \/ cartCallThrows(1)

CartFaultSpec == Init /\ [][CartFaultNext]_vars

\* a cart request next to a call of a model function, any of whose database
\* calls may reject
PoolNext ==
    \/ \E u \in Users, q \in CartQtyInputs : addItemStart(1, u, "p2", q)
    \/ addItemCheckProduct(1)
    \/ \E u \in Users : getCartStart(1, u)
    \/ getOrCreateFind(1)
    \/ getOrCreateInsert(1)
    \/ addItemToCartLookup(1)
    \/ addItemToCartWrite(1)
    \/ addItemToCartCommit(1)
    \/ cartCallThrows(1)
    \/ \E i \in ItemIdInputs, q \in 1..MaxQty : updateCartItemExecute(2, i, q)
    \/ updateCartItemCommit(2)
    \/ \E t \in TotalInputs :
         /\ Len(orders) < Cardinality(OrderIdInputs)
         /\ createOrderInsert(2, "u1", t, "a1", "a1")
    \/ createOrderFind(2)
    \/ createOrderCommit(2)
    \/ modelCallThrows(2)

PoolSpec == Init /\ [][PoolNext]_vars

\* the cart routes together with direct calls of the cart model
CartModelNext ==
    \/ CartNext
    \/ \E c \in CartIdInputs, p \in ProductIds, q \in ModelQtyInputs :
         addItemToCartCall(c, p, q)

CartModelSpec == Init /\ [][CartModelNext]_vars

\* ------------------------------------------------------------------ claims
\* the adjacency table of the order status, as a relation
TableEdges ==
    {<<"PENDING", "PROCESSING">>, <<"PENDING", "CANCELLED">>,
     <<"PROCESSING", "SHIPPED">>, <<"PROCESSING", "CANCELLED">>,
     <<"SHIPPED", "DELIVERED">>}

\* the request just answered is `op' of the owner of an existing order
OwnerRequest(op) ==
    /\ req'.op = op
    /\ req'.id \in DOMAIN orders
    /\ req'.user = orders[req'.id].userId

\* the OrderItem rows of an order in a table, and the sum of price x quantity
RowsOf(items, id) == {i \in DOMAIN items : items[i].orderId = id}

RECURSIVE SumRows(_, _)
SumRows(items, rows) ==
    IF rows = {} THEN 0
    ELSE LET i == CHOOSE r \in rows : TRUE
         IN  items[i].price * items[i].quantity + SumRows(items, rows \ {i})

\* the CartItem rows a getCart of the user shows for a product
ShownFor(items, table, userId, productId) ==
    {it \in items : /\ it.productId = productId
                    /\ it.cartId \in DOMAIN table
                    /\ table[it.cartId] = userId}

\* C1: an updateStatus(order, s) request of the order's owner succeeds and sets the
\* status to s exactly when <<current status, s>> is an edge of the table; for
\* every other pair (same-state included) it gets a 400 and the status stays.
C1_UpdateStatusFollowsTable ==
    [][OwnerRequest("updateStatus") =>
        IF <<orders[req'.id].status, req'.status>> \in TableEdges
        THEN res'.code = 200 /\ orders'[req'.id].status = req'.status
        ELSE res'.code = 400 /\ orders'[req'.id].status = orders[req'.id].status]_vars

\* C1 witness: the owner's update was accepted and took the order to DELIVERED
C1_Witness ==
    /\ req.op = "updateStatus" /\ res.code = 200
    /\ orders[req.id].status = "DELIVERED"

\* C2: every cart holds at most one CartItem per productId.
C2_OneItemPerProduct ==
    \A a \in cartItems, b \in cartItems :
        (a.cartId = b.cartId /\ a.productId = b.productId) => a = b

\* C2 witness: after an add, one cart holds items of two products
C2_Witness ==
    /\ req.op = "addItem" /\ res.code = 201
    /\ \E a \in cartItems, b \in cartItems :
           a.cartId = b.cartId /\ a.productId # b.productId

\* C3 (as claimed): an addItem with 0 < q <= stock leaves exactly one CartItem of
\* the product in the user's cart, with quantity q.
C3_Original ==
    [][(/\ req'.op = "addItem"
        /\ req'.productId \in DOMAIN stock
        /\ 0 < req'.quantity /\ req'.quantity <= stock[req'.productId])
       => \E it \in cartItems' :
            /\ ShownFor(cartItems', carts', req'.user, req'.productId) = {it}
            /\ it.quantity = req'.quantity]_vars

\* C3 (amended): an addItem with 0 < q <= stock and q <= 200 is accepted and leaves
\* exactly one CartItem of the product in the user's cart, with quantity q,
\* whatever the cart held for the product before.
C3_AddItemOverwrites ==
    [][(/\ req'.op = "addItem"
        /\ req'.productId \in DOMAIN stock
        /\ 0 < req'.quantity /\ req'.quantity <= stock[req'.productId]
        /\ req'.quantity <= AddQuantityMax)
       => /\ res'.code = 201
          /\ \E it \in cartItems' :
               /\ ShownFor(cartItems', carts', req'.user, req'.productId) = {it}
               /\ it.quantity = req'.quantity]_vars

\* C3 witness: an add was accepted for a product whose item is older than the
\* newest row, so it overwrote a stored quantity
C3_Witness ==
    /\ req.op = "addItem" /\ res.code = 201
    /\ \E it \in ShownFor(cartItems, carts, req.user, req.productId) :
           it.quantity = req.quantity /\ it.id + 1 < nextItemId

\* C4: an order has exactly one OrderItem per product that was successfully
\* added to it; its quantity is the sum of the quantities of those adds and its
\* price the price of the last one.
C4_OrderItemsSumQuantities ==
    \A id \in DOMAIN orders, p \in ProductIds :
        LET rows == {i \in RowsOf(orderItems, id) : orderItems[i].productId = p}
        IN  IF <<id, p>> \in DOMAIN added
            THEN /\ Cardinality(rows) = 1
                 /\ \A i \in rows :
                        /\ orderItems[i].quantity = added[<<id, p>>].quantity
                        /\ orderItems[i].price = added[<<id, p>>].price
            ELSE rows = {}

\* C4 witness: a product was added twice to an order that also holds another product
C4_Witness ==
    /\ req.op = "addOrderItem" /\ res.code = 201
    /\ \E k \in DOMAIN added : added[k].quantity > added[k].first
    /\ Cardinality(DOMAIN added) > 1

\* C5: right after a successful addOrderItem the order's totalAmount is the sum
\* of price x quantity over its OrderItems.
C5_TotalIsSumOfItems ==
    [][(req'.op = "addOrderItem" /\ res'.code = 201) =>
        orders'[req'.id].totalAmount
            = SumRows(orderItems', RowsOf(orderItems', req'.id))]_vars

\* C5 witness: an add succeeded on an order of two items whose total is not
\* what createOrder was given
C5_Witness ==
    /\ req.op = "addOrderItem" /\ res.code = 201
    /\ Cardinality(RowsOf(orderItems, req.id)) = 2
    /\ orders[req.id].totalAmount \notin TotalInputs

\* C6: an add-item request of the owner that passes the validators, on an order
\* that is not PENDING, gets the 400 state error; OrderItems and Order rows stay.
C6_AddItemRejectedUnlessPending ==
    [][(/\ OwnerRequest("addOrderItem")
        /\ req'.quantity >= 1
        /\ orders[req'.id].status # "PENDING")
       => /\ res' = Response("addOrderItem", 400, "notPending")
          /\ orderItems' = orderItems
          /\ orders' = orders]_vars

\* C6 witness: an add was refused on a non-PENDING order that holds items
C6_Witness ==
    /\ res = Response("addOrderItem", 400, "notPending")
    /\ RowsOf(orderItems, req.id) # {}
    /\ orders[req.id].status = "PROCESSING"

\* C7: cancelling a PENDING order without Payment, by its owner, succeeds, sets
\* the status to CANCELLED and deletes nothing: the Order row is otherwise the
\* same and the OrderItems are the same.
C7_CancelMarksCancelled ==
    [][(/\ OwnerRequest("cancelOrder")
        /\ orders[req'.id].status = "PENDING"
        /\ req'.id \notin payments)
       => /\ res'.code = 204
          /\ orders' = [orders EXCEPT ![req'.id].status = "CANCELLED"]
          /\ orderItems' = orderItems]_vars

\* C7 witness: an order with items was cancelled
C7_Witness ==
    /\ res = Response("cancelOrder", 204, "ok")
    /\ orders[req.id].status = "CANCELLED"
    /\ RowsOf(orderItems, req.id) # {}

\* C8: a cancel by the owner gets a 400 and leaves the status when the order is
\* not PENDING or has a Payment.
C8_CancelRejected ==
    [][(/\ OwnerRequest("cancelOrder")
        /\ (orders[req'.id].status # "PENDING" \/ req'.id \in payments))
       => /\ res'.code = 400
          /\ orders' = orders]_vars

\* C8 witness: a cancel was refused for a PENDING order that has a Payment
C8_Witness ==
    /\ res = Response("cancelOrder", 400, "hasPayment")
    /\ orders[req.id].status = "PENDING"

\* C9: an order that is DELIVERED or CANCELLED keeps that status at every step.
C9_TerminalStatusStays ==
    [][\A id \in DOMAIN orders :
        orders[id].status \in {"DELIVERED", "CANCELLED"} =>
            /\ id \in DOMAIN orders'
            /\ orders'[id].status = orders[id].status]_vars

\* C9 witness: the owner asked to move a DELIVERED order and was refused
C9_Witness ==
    /\ req.op = "updateStatus" /\ req.status \in Statuses
    /\ res.code = 400
    /\ orders[req.id].status = "DELIVERED"

\* C10: an update of an item of the caller's cart to a quantity above the stock
\* of the item's product gets a 400 and the CartItem rows stay.
C10_UpdateAboveStockRejected ==
    [][(/\ req'.op = "updateItem"
        /\ \E it \in cartItems :
              /\ it.id = req'.itemId
              /\ it.cartId \in DOMAIN carts /\ carts[it.cartId] = req'.user
              /\ req'.quantity > stock[it.productId])
       => /\ res'.code = 400
          /\ cartItems' = cartItems]_vars

\* C10 witness: an update above the stock was refused
C10_Witness ==
    /\ res = Response("updateItem", 400, "exceedsStock")
    /\ \E it \in cartItems : it.id = req.itemId /\ it.quantity < req.quantity

\* C11: an addItem for a product that does not exist, or for more than the
\* product's stock, is refused (404 and 400 when the body is well-formed) and
\* writes nothing: no Cart row is created and the CartItem rows stay.
C11_AddItemRejectedBeforeWrite ==
    [][(/\ req'.op = "addItem"
        /\ \/ req'.productId \notin DOMAIN stock
           \/ req'.quantity > stock[req'.productId])
       => /\ res'.code \in {400, 404}
          /\ addCartItemValidator(req'.quantity) =>
                res'.code = IF req'.productId \notin DOMAIN stock THEN 404 ELSE 400
          /\ carts' = carts
          /\ cartItems' = cartItems
          /\ nextItemId' = nextItemId]_vars

\* C11 witness: a well-formed add above the stock was refused for a user who
\* still has no cart, while another cart holds items
C11_Witness ==
    /\ res = Response("addItem", 400, "exceedsStock")
    /\ req.productId \in DOMAIN stock /\ req.quantity > stock[req.productId]
    /\ findCartByUserId(req.user) = 0
    /\ cartItems # {}

C13_UpdateNonPositiveRemoves ==
    [][(/\ req'.op = "updateItem" /\ req'.quantity <= 0
        /\ \E it \in cartItems :
              /\ it.id = req'.itemId
              /\ it.cartId \in DOMAIN carts /\ carts[it.cartId] = req'.user)
       => /\ res'.code = 200
          /\ cartItems' = {it \in cartItems : it.id # req'.itemId}]_vars

\* the address `id' exists and belongs to `userId'
OwnsAddress(id, userId) == id \in DOMAIN addresses /\ addresses[id] = userId

OrdersUsing(id) ==
    {o \in DOMAIN orders :
        orders[o].shippingAddressId = id \/ orders[o].billingAddressId = id}

\* C15: the deletion of an Address that an Order uses is refused (400 for its
\* owner) and the Address stays, whatever the status of the order; and every
\* Order's shipping and billing address always exist.
C15_UsedAddressStays ==
    /\ [](\A o \in DOMAIN orders :
             /\ orders[o].shippingAddressId \in DOMAIN addresses
             /\ orders[o].billingAddressId \in DOMAIN addresses)
    /\ [][(req'.op = "deleteAddress" /\ OrdersUsing(req'.id) # {})
          => /\ res'.code = IF addresses[req'.id] = req'.user THEN 400 ELSE 404
             /\ addresses' = addresses]_vars

\* C15 witness: the owner was refused the deletion of the billing address of a
\* DELIVERED order, after another address had been deleted
C15_Witness ==
    /\ res = Response("deleteAddress", 400, "inUse")
    /\ \E o \in DOMAIN orders :
           /\ orders[o].billingAddressId = req.id
           /\ orders[o].shippingAddressId # req.id
           /\ orders[o].status = "DELIVERED"

\* the Orders of a user
OrdersOfUser(userId) == {o \in DOMAIN orders : orders[o].userId = userId}

Min(a, b) == IF a < b THEN a ELSE b

Max(a, b) == IF a < b THEN b ELSE a

CartIdsOf(table, userId) == {c \in DOMAIN table : table[c] = userId}

\* C17: no user ever has two Cart rows; a getCart always answers 200 with the
\* id of the user's cart, inserting a Cart row only when the user had none;
\* and the cart id of a user never changes once there is one.
C17_GetOrCreateCartIdempotent ==
    /\ [](\A u \in Users : Cardinality(CartIdsOf(carts, u)) <= 1)
    /\ [][/\ \A u \in Users :
               CartIdsOf(carts, u) # {} => CartIdsOf(carts', u) = CartIdsOf(carts, u)
          /\ req'.op = "getCart" =>
               /\ res'.code = 200
               /\ CartIdsOf(carts', req'.user) = {res'.cartId}
               /\ carts' = IF CartIdsOf(carts, req'.user) # {} THEN carts
                                ELSE Append(carts, req'.user)]_vars

\* C17 witness: a getCart answered with a cart that already holds items, so
\* the cart was there before the call
C17_Witness ==
    /\ req.op = "getCart" /\ res.code = 200
    /\ \E it \in cartItems : it.cartId = res.cartId
    /\ Len(carts) = Cardinality(Users)

\* the CartItem `id' exists and is in the cart of `userId'
InCartOf(id, userId) ==
    \E it \in cartItems :
        it.id = id /\ it.cartId \in DOMAIN carts /\ carts[it.cartId] = userId

\* C18: an update or a removal of an item id that does not exist, or that is
\* in another user's cart, is answered 404 (400 when the body of the update is
\* not well-formed) and leaves every CartItem row as it was.
C18_ForeignItemNotFound ==
    [][(req'.op \in {"updateItem", "removeItem"} /\ ~InCartOf(req'.itemId, req'.user))
       => /\ res'.code =
                IF req'.op = "updateItem" /\ ~updateCartItemValidator(req'.quantity)
                THEN 400 ELSE 404
          /\ cartItems' = cartItems]_vars

\* C18 witness: a user who has a cart was refused the removal of an item that
\* had been inserted and is gone
C18_Witness ==
    /\ res = Response("removeItem", 404, "itemNotFound")
    /\ req.itemId < nextItemId
    /\ \A it \in cartItems : it.id # req.itemId
    /\ cartItems # {}

\* C19: a clearCart answers 200, deletes exactly the CartItem rows of the
\* caller's cart, and leaves the Cart table as it was (so it creates no cart
\* for a caller who has none, and then deletes nothing).
C19_ClearCartFrame ==
    [][req'.op = "clearCart"
       => /\ res'.code = 200
          /\ carts' = carts
          /\ nextItemId' = nextItemId
          /\ cartItems' = {it \in cartItems : it.cartId \notin CartIdsOf(carts, req'.user)}]_vars

\* C19 witness: after a clearCart the caller's cart is empty while another
\* cart still holds an item, and every insertion has been used
C19_Witness ==
    /\ req.op = "clearCart" /\ res.code = 200
    /\ CartIdsOf(carts, req.user) # {}
    /\ cartItems # {}
    /\ \A it \in cartItems : it.cartId \notin CartIdsOf(carts, req.user)
    /\ nextItemId > MaxItemId

\* C20: every stored CartItem has a quantity from 1 to 200, the bound of the
\* add-item validator.
C20_QuantityWithinBounds ==
    \A it \in cartItems : 1 <= it.quantity /\ it.quantity <= AddQuantityMax

\* the operations of the /orders endpoints
OrderOps ==
    {"createOrder", "getOrders", "getOrder", "updateStatus", "addOrderItem", "cancelOrder"}

\* C21: a request to an /orders endpoint that carries no valid token is
\* answered 401 and neither returns nor changes any order.
C21_NoTokenRejected ==
    [][(req'.op \in OrderOps /\ req'.user = NoUser)
       => /\ res'.code = 401
          /\ UNCHANGED orderVars]_vars

C23_OneItemPerProductConcurrently ==
    \A a \in cartItems, b \in cartItems :
        (a.cartId = b.cartId /\ a.productId = b.productId) => a.id = b.id

\* C24: addOrderItem is all or nothing: when the request ends with an error,
\* the OrderItem rows of the order and its totalAmount are those it read at
\* its start.
C24_AddOrderItemAllOrNothing ==
    [][\A c \in CallIds :
          (/\ calls[c].pc \in {"writeItem", "sumItems", "writeTotal"}
           /\ calls'[c] = Idle
           /\ res'.code = 500)
          => /\ FindItemsOfOrder(orderItems', calls[c].id) = calls[c].items
             /\ orders'[calls[c].id].totalAmount = calls[c].totalAmount]_vars

\* C25: with updateStatus and cancelOrder requests on one order interleaving
\* between their prisma calls, every change of the stored status follows an
\* edge of the table; in particular a SHIPPED or DELIVERED order never becomes
\* CANCELLED.
C25_StatusFollowsTableConcurrently ==
    [][\A id \in DOMAIN orders :
          orders'[id].status # orders[id].status
          => /\ <<orders[id].status, orders'[id].status>> \in TableEdges
             /\ ~(/\ orders[id].status \in {"SHIPPED", "DELIVERED"}
                  /\ orders'[id].status = "CANCELLED")]_vars

\* C26: with addOrderItem interleaving with updateStatus and cancelOrder, once
\* the stored status of an order is no longer PENDING no OrderItem of it is
\* created or modified and its totalAmount is not rewritten.
C26_NoItemWriteAfterPending ==
    [][\A id \in DOMAIN orders :
          orders[id].status # "PENDING"
          => /\ FindItemsOfOrder(orderItems', id) = FindItemsOfOrder(orderItems, id)
             /\ orders'[id].totalAmount = orders[id].totalAmount]_vars

\* C27: with first cart accesses of one user interleaving between their
\* database calls, no getCart or addItem request ends with an error response,
\* and every one that succeeds has seen the single Cart of its user.
C27_FirstAccessesShareOneCart ==
    res.op \in {"getCart", "addItem"}
    => /\ res.code # 500
       /\ res.code \in {200, 201} => res.cartId = findCartByUserId(res.user)

\* C28: when a database step of addItemToCart throws, the transaction is
\* rolled back before the error reaches the caller: the CartItem rows are as
\* they were before the call, the request ends at once with 500, and the
\* rows change only in the step that ends the request with 201.
C28_AddItemToCartRollsBack ==
    [][\A c \in CallIds :
          calls[c].pc \in {"lookupItem", "write", "commit"}
          => /\ (calls'[c] = Idle /\ res'.code # 201)
                => (res'.code = 500 /\ res'.op = "addItem" /\ cartItems' = cartItems)
             /\ cartItems' # cartItems
                => (calls'[c] = Idle /\ res'.code = 201)]_vars

\* an INSERT of addItemToCart has been executed and rolled back: the counter
\* of CartItem has moved, no row is stored, and the request got 500
C28_Witness ==
    /\ res.op = "addItem"
    /\ res.code = 500
    /\ nextItemId > 1
    /\ cartItems = {}

\* the positions at which an operation holds the connection it acquired
HoldsConnection ==
    {"createCart", "write", "commit", "commitUpdate", "findOrder", "commitOrder"}

\* C29: every operation of the cart and order models releases the connection
\* it acquired exactly once on every path, so the connections checked out are
\* those of the operations in flight and none once they have completed; a
\* helper handed the caller's connection neither releases it nor ends the
\* caller's transaction: what it wrote is stored only by the caller's commit.
C29_ConnectionsReleasedOnce ==
    /\ [](checkedOut = Cardinality({c \in CallIds : calls[c].pc \in HoldsConnection}))
    /\ [][\A c \in CallIds :
             (calls[c].pc = "write" /\ calls'[c].pc = "commit")
             => (cartItems' = cartItems /\ calls'[c].pending # {})]_vars

\* an addItemToCart and a createOrder have completed, another call has
\* thrown, and no connection is checked out
C29_Witness ==
    /\ \A c \in CallIds : calls[c] = Idle
    /\ checkedOut = 0
    /\ cartItems # {}
    /\ orders # <<>>
    /\ res.msg = "throws"

\* the cart and order operations that write
WritingOps ==
    {"addItem", "updateItem", "removeItem", "clearCart",
     "createOrder", "addOrderItem", "updateStatus", "cancelOrder"}

\* C30: no cart operation (addItem, updateItemQuantity, removeItem, clearCart)
\* and no order operation (createOrder, addOrderItem, updateStatus,
\* cancelOrder) changes the stock of any Product.
C30_StockUntouched ==
    [][req'.op \in WritingOps => stock' = stock]_vars

\* C30 witness: the stock of p1 has been set to another value by a product
\* update, items are in the cart, and an order with items has just been
\* cancelled
C30_Witness ==
    /\ req.op = "cancelOrder" /\ res.code = 204
    /\ orderItems # <<>>
    /\ cartItems # {}
    /\ stock # InitStock

====
